---- MODULE Spec2Model ----
(***************************************************************************)
(* Model of Radiation/scaling.py (class scaling and the unit tables CGS,   *)
(* MKS, SI) and Radiation/images.py (imshow, imshows).                     *)
(*                                                                         *)
(* Numbers.  scaling.__init__ only multiplies, divides, raises to integer  *)
(* powers and takes one cube root; it never adds.  A number is therefore   *)
(* represented exactly as a monomial                                       *)
(*      0        or       e^(i*ph*pi/3) * PROD_a  a^(ex[a]/3)              *)
(* over the generators in Atoms: ph = 0 is a positive real, ph = 3 a       *)
(* negative real, ph = 1 the principal cube root that Python returns for   *)
(* a negative base (a complex number).  Exponents are stored in thirds so  *)
(* that the cube root of a quotient of two inputs is exact.  Arguments are  *)
(* Python ints and floats (a division by 0 raises ZeroDivisionError);      *)
(* rounding and overflow of floats are outside this model.                 *)
(***************************************************************************)
EXTENDS Integers, Sequences, FiniteSets, TLC

\* ------------------------------------------------------------------ bounds
\* numeric arguments range over 0, -1 and 2^k for k in -MaxExp..MaxExp
MaxExp == 1
\* largest number of panels in a stack given to imshows
MaxPanels == 4

\* ----------------------------------------------------------------- numbers
Atoms == {"two", "ten", "m_Sun", "G", "yr", "au", "m_u", "k_B", "h_P", "c",
          "Stefan", "pcf", "mu"}

NoExp == [a \in Atoms |-> 0]

Zero == [z |-> TRUE, ph |-> 0, ex |-> NoExp]

One == [z |-> FALSE, ph |-> 0, ex |-> NoExp]

MinusOne == [z |-> FALSE, ph |-> 3, ex |-> NoExp]

\* the generator a raised to the integer power k
AtomPow(a, k) == [z |-> FALSE, ph |-> 0,
                  ex |-> [b \in Atoms |-> IF b = a THEN 3 * k ELSE 0]]

\* x > 0 on a real number
IsPos(x) == ~x.z /\ x.ph = 0

\* x == 0
IsZero(x) == x.z

Mul(x, y) == IF x.z \/ y.z THEN Zero
             ELSE [z |-> FALSE, ph |-> (x.ph + y.ph) % 6,
                   ex |-> [a \in Atoms |-> x.ex[a] + y.ex[a]]]

\* x / y for y # 0 (the callers raise ZeroDivisionError for y == 0)
Div(x, y) == IF x.z THEN Zero
             ELSE [z |-> FALSE, ph |-> (x.ph + 6 - y.ph) % 6,
                   ex |-> [a \in Atoms |-> x.ex[a] - y.ex[a]]]

\* x ** n for an integer n >= 1
Pow(x, n) == IF x.z THEN Zero
             ELSE [z |-> FALSE, ph |-> (x.ph * n) % 6,
                   ex |-> [a \in Atoms |-> x.ex[a] * n]]

\* x ** (1/3) on a real x: the real root of a positive number, the
\* principal complex root (argument pi/3) of a negative one
Cbrt(x) == IF x.z THEN Zero
           ELSE [z |-> FALSE, ph |-> x.ph \div 3,
                 ex |-> [a \in Atoms |-> x.ex[a] \div 3]]

\* mantissa * 10^k, the mantissa being the generator a
Sci(a, k) == Mul(AtomPow(a, 1), AtomPow("ten", k))

\* ------------------------------------------------------------------ tables
CGS == [name |-> "CGS",
        m_Sun |-> Sci("m_Sun", 33),
        grav |-> Sci("G", -8),
        G |-> Sci("G", -8),
        yr |-> Sci("yr", 7),
        au |-> Sci("au", 13),
        m_u |-> Sci("m_u", -24),
        k_B |-> Sci("k_B", -16),
        h_P |-> Sci("h_P", -27),
        c |-> Sci("c", 10),
        Stefan |-> Sci("Stefan", -5),
        pc |-> Mul(AtomPow("pcf", 1), Sci("au", 13)),
        kyr |-> Mul(AtomPow("ten", 3), Sci("yr", 7)),
        Myr |-> Mul(AtomPow("ten", 6), Sci("yr", 7)),
        kms |-> AtomPow("ten", 5)]

MKS == [name |-> "MKS",
        m_Sun |-> Sci("m_Sun", 30),
        grav |-> Sci("G", -11),
        G |-> Sci("G", -11),
        yr |-> Sci("yr", 7),
        au |-> Sci("au", 11),
        m_u |-> Sci("m_u", -27),
        k_B |-> Sci("k_B", -23),
        h_P |-> Sci("h_P", -34),
        c |-> Sci("c", 8),
        Stefan |-> Sci("Stefan", -8),
        pc |-> Mul(AtomPow("pcf", 1), Sci("au", 11)),
        kyr |-> Mul(AtomPow("ten", 3), Sci("yr", 7)),
        Myr |-> Mul(AtomPow("ten", 6), Sci("yr", 7)),
        kms |-> AtomPow("ten", 3)]

SI == [MKS EXCEPT !.name = "SI"]

TableNames == {"CGS", "MKS", "SI"}

Table(n) == CASE n = "CGS" -> CGS [] n = "MKS" -> MKS [] n = "SI" -> SI

\* --------------------------------------------------------- Python arguments
\* a number, or a str (s is the text)
Num(x) == [k |-> "num", n |-> x, s |-> ""]

Str(s) == [k |-> "str", n |-> Zero, s |-> s]

\* the system argument: a table class, or a str given as its characters
TableObj(n) == [k |-> "table", tab |-> n, s |-> <<>>]

NameStr(cs) == [k |-> "str", tab |-> "", s |-> cs]

\* x == 'text' for an argument x
EqStr(x, text) == x.k = "str" /\ x.s = text

\* ------------------------------------------------------- scaling.__init__
\* the attributes of self other than system, as a function name -> number
NoAttrs == [a \in {} |-> Zero]

SetAttr(self, a, x) == [b \in DOMAIN self \cup {a} |->
                          IF b = a THEN x ELSE self[b]]

\* one line of output
Line(txt, name, n, d) == [txt |-> txt, name |-> name, n |-> n, d |-> d]

\* self.system before line 74 has run
Unset == [k |-> "unset", tab |-> "", s |-> <<>>]

\* the frame of a call of scaling.__init__: its locals, self, what was
\* printed, the exception that ended it, whether it returned early;
\* filled remembers self as it was after the fill-in step
Frame(system, l, m, t, D, v, mu, verbose) ==
    [system |-> system, l |-> l, m |-> m, t |-> t, D |-> D, v |-> v,
     mu |-> mu, verbose |-> verbose,
     self |-> NoAttrs, self_system |-> Unset,
     filled |-> NoAttrs, nonzero |-> -1,
     exc |-> "none", returned |-> FALSE, out |-> <<>>]

Running(fr) == fr.exc = "none" /\ ~fr.returned

Raise(fr, e) == [fr EXCEPT !.exc = e]

\* system.<attr> raises AttributeError when system is still a str
HasTable(fr) == fr.system.k = "table"

Const(fr, attr) == Table(fr.system.tab)[attr]

cgs_lower == <<"c", "g", "s">>

cgs_upper == <<"C", "G", "S">>

mks_lower == <<"m", "k", "s">>

mks_upper == <<"M", "K", "S">>

si_lower == <<"s", "i">>

si_upper == <<"S", "I">>

\* variant: the upper-case spellings are forgotten
ResolveSystem_lowerOnly(system) ==
    IF system.k = "str"
    THEN IF system.s = cgs_lower THEN TableObj("CGS")
         ELSE IF system.s = mks_lower THEN TableObj("MKS")
         ELSE IF system.s = si_lower THEN TableObj("SI")
         ELSE system
    ELSE system

\* if type(system)==type('str'): ... (an unmatched str stays a str)
ResolveSystem(system) ==
    IF system.k = "str"
    THEN IF system.s = cgs_lower \/ system.s = cgs_upper THEN TableObj("CGS")
         ELSE IF system.s = mks_lower \/ system.s = mks_upper THEN TableObj("MKS")
         ELSE IF system.s = si_lower \/ system.s = si_upper THEN TableObj("SI")
         ELSE system
    ELSE system

\* self.system = system
StoreSystem(fr) ==
    LET sys == ResolveSystem(fr.system)
    IN  [fr EXCEPT !.system = sys, !.self_system = sys]

\* if verbose>0: print("using "+system.name+" units")
PrintSystem(fr) ==
    IF ~Running(fr) \/ ~(fr.verbose > 0) THEN fr
    ELSE IF ~HasTable(fr) THEN Raise(fr, "AttributeError")
    ELSE [fr EXCEPT !.out = Append(@, Line("using units", Const(fr, "name"), 0, NoAttrs))]

\* if <local> == '<text>' : <local> = system.<attr>
Shorthand(fr, local, text, attr) ==
    IF ~Running(fr) \/ ~EqStr(fr[local], text) THEN fr
    ELSE IF ~HasTable(fr) THEN Raise(fr, "AttributeError")
    ELSE [fr EXCEPT ![local] = Num(Const(fr, attr))]

\* variant: 'Myr' looked up as system.kyr
InterpretStrings_wrongMyr(fr) ==
    Shorthand(Shorthand(Shorthand(Shorthand(Shorthand(Shorthand(Shorthand(
        fr, "l", "pc", "pc"),
            "m", "Solar", "m_Sun"),
            "m", "m_Sun", "m_Sun"),
            "t", "yr", "yr"),
            "t", "kyr", "kyr"),
            "t", "Myr", "kyr"),
            "v", "kms", "kms")

\* Interpret string values
InterpretStrings(fr) ==
    Shorthand(Shorthand(Shorthand(Shorthand(Shorthand(Shorthand(Shorthand(
        fr, "l", "pc", "pc"),
            "m", "Solar", "m_Sun"),
            "m", "m_Sun", "m_Sun"),
            "t", "yr", "yr"),
            "t", "kyr", "kyr"),
            "t", "Myr", "Myr"),
            "v", "kms", "kms")

Inputs(fr) == <<fr.l, fr.m, fr.t, fr.D, fr.v>>

\* [i>0 for i in inputs].count(True); a str in inputs raises TypeError
CountInputs(fr) ==
    IF ~Running(fr) THEN fr
    ELSE IF \E i \in 1..5 : Inputs(fr)[i].k = "str" THEN Raise(fr, "TypeError")
    ELSE [fr EXCEPT !.nonzero = Cardinality({i \in 1..5 : IsPos(Inputs(fr)[i].n)})]

\* if verbose > 2: print('there', 'is'/'are', nonzero, 'input value(s)')
PrintCount(fr) ==
    IF ~Running(fr) \/ ~(fr.verbose > 2) THEN fr
    ELSE [fr EXCEPT !.out = Append(@,
            Line(IF fr.nonzero > 1 THEN "there input values" ELSE "there input value",
                 IF fr.nonzero = 1 THEN "is" ELSE "are", fr.nonzero, NoAttrs))]

\* if nonzero != 3: print(...); return None
CheckCount(fr) ==
    IF ~Running(fr) \/ fr.nonzero = 3 THEN fr
    ELSE [fr EXCEPT !.returned = TRUE,
                    !.out = Append(@,
                       Line("exactly 3 input values must be specified",
                            IF fr.nonzero = 1 THEN "was" ELSE "were",
                            fr.nonzero, NoAttrs))]

\* self.l = l ... self.v = v
StoreInputs(fr) ==
    IF ~Running(fr) THEN fr
    ELSE [fr EXCEPT !.self = [a \in {"l", "m", "t", "D", "v"} |-> fr[a].n]]

\* self.<attr> = num / den
AssignDiv(fr, attr, num, den) ==
    IF IsZero(den) THEN Raise(fr, "ZeroDivisionError")
    ELSE [fr EXCEPT !.self = SetAttr(@, attr, Div(num, den))]

Assign(fr, attr, x) == [fr EXCEPT !.self = SetAttr(@, attr, x)]

\* If velocity units were given, either length or time units were not
FillVelocity(fr) ==
    IF ~Running(fr) THEN fr
    ELSE IF IsPos(fr.v.n)
         THEN IF IsZero(fr.l.n)
              THEN Assign(fr, "l", Mul(fr.v.n, fr.t.n))
              ELSE AssignDiv(fr, "t", fr.l.n, fr.v.n)
         ELSE AssignDiv(fr, "v", fr.l.n, fr.t.n)

\* If density units were given, either length or mass units were not
FillDensity(fr) ==
    IF ~Running(fr) THEN fr
    ELSE IF IsPos(fr.D.n)
         THEN IF IsZero(fr.m.n)
              THEN Assign(fr, "m", Mul(fr.D.n, Pow(fr.l.n, 3)))
              ELSE Assign(fr, "l", Cbrt(Div(fr.m.n, fr.D.n)))
         ELSE AssignDiv(fr, "D", fr.m.n, Pow(fr.l.n, 3))

\* history: self after the fill-in step
Snapshot(fr) == IF ~Running(fr) THEN fr ELSE [fr EXCEPT !.filled = fr.self]

\* variant: the mass of the fill-in step is kept
RecomputeMass_skipped(fr) == fr

\* self.m = self.D*self.l**3
RecomputeMass(fr) ==
    IF ~Running(fr) THEN fr
    ELSE Assign(fr, "m", Mul(fr.self.D, Pow(fr.self.l, 3)))

\* self.P, self.e, self.E, self.mu, self.T
Derived(fr) ==
    IF ~Running(fr) THEN fr
    ELSE LET v2 == Pow(fr.self.v, 2)
             f1 == Assign(fr, "P", Mul(fr.self.D, v2))
             f2 == Assign(f1, "e", Mul(fr.self.m, v2))
             f3 == Assign(f2, "E", Mul(fr.self.D, v2))
             f4 == Assign(f3, "mu", fr.mu)
         IN  IF ~HasTable(fr) THEN Raise(f4, "AttributeError")
             ELSE Assign(f4, "T",
                    Mul(Div(Mul(fr.mu, Const(fr, "m_u")), Const(fr, "k_B")), v2))

\* self.G = system.G*self.D*self.t**2
RescaleG(fr) ==
    IF ~Running(fr) THEN fr
    ELSE Assign(fr, "G", Mul(Mul(Const(fr, "G"), fr.self.D), Pow(fr.self.t, 2)))

\* self.Stefan = system.Stefan/(self.E*self.v)
RescaleStefan(fr) ==
    IF ~Running(fr) THEN fr
    ELSE AssignDiv(fr, "Stefan", Const(fr, "Stefan"), Mul(fr.self.E, fr.self.v))

\* variant: the time scale is left out of the divisor
RescaleH_noTime(fr) ==
    IF ~Running(fr) THEN fr
    ELSE AssignDiv(fr, "h_P", Const(fr, "h_P"), fr.self.e)

\* self.h_P = system.h_P/(self.t*self.e)
RescaleH(fr) ==
    IF ~Running(fr) THEN fr
    ELSE AssignDiv(fr, "h_P", Const(fr, "h_P"), Mul(fr.self.t, fr.self.e))

\* variant: divided by the mass scale instead of the energy scale
RescaleK_byMass(fr) ==
    IF ~Running(fr) THEN fr
    ELSE AssignDiv(fr, "k_B", Const(fr, "k_B"), fr.self.m)

\* self.k_B = system.k_B/self.e
RescaleK(fr) ==
    IF ~Running(fr) THEN fr
    ELSE AssignDiv(fr, "k_B", Const(fr, "k_B"), fr.self.e)

\* self.c = system.c/self.v
RescaleC(fr) ==
    IF ~Running(fr) THEN fr
    ELSE AssignDiv(fr, "c", Const(fr, "c"), fr.self.v)

\* self.m_u = system.m_u/self.m
RescaleMu(fr) ==
    IF ~Running(fr) THEN fr
    ELSE AssignDiv(fr, "m_u", Const(fr, "m_u"), fr.self.m)

\* if verbose>1: print(vars(self))
PrintVars(fr) ==
    IF ~Running(fr) \/ ~(fr.verbose > 1) THEN fr
    ELSE [fr EXCEPT !.out = Append(@, Line("vars", "", 0, fr.self))]

\* the whole of scaling.__init__, statement after statement
RunScaling(system, l, m, t, D, v, mu, verbose) ==
    PrintVars(RescaleMu(RescaleC(RescaleK(RescaleH(RescaleStefan(RescaleG(
    Derived(RecomputeMass(Snapshot(FillDensity(FillVelocity(StoreInputs(
    CheckCount(PrintCount(CountInputs(InterpretStrings(PrintSystem(StoreSystem(
        Frame(system, l, m, t, D, v, mu, verbose))))))))))))))))))))

\* ------------------------------------------------------------- images.py
\* an array is [ndim, a]: a is nested sequences, outermost index first.
\* Pixel values are counted in halves (3 stands for 1.5).
Arr(ndim, a) == [ndim |-> ndim, a |-> a]

\* a title: a str (s holds the one text), or an ndarray, list or tuple of
\* strs (s holds the elements)
Title(k, s) == [k |-> k, s |-> s]

NoTitle == Title("none", <<>>)

\* one call into the plotting library
Plot(op, img, nums, title, kw) ==
    [op |-> op, img |-> img, nums |-> nums, title |-> title, kw |-> kw]

\* np.transpose(f) of a 2D array
Transpose(a) == [j \in 1..Len(a[1]) |-> [i \in 1..Len(a) |-> a[i][j]]]

Elems(a) == {a[i][j] : i \in 1..Len(a), j \in 1..Len(a[1])}

\* f.max(), f.min()
ArrMax(a) == CHOOSE x \in Elems(a) : \A y \in Elems(a) : y <= x

ArrMin(a) == CHOOSE x \in Elems(a) : \A y \in Elems(a) : x <= y

\* '{:.4f}'.format(x) for x counted in halves: integer part, four decimals
Fmt4(x) == <<x \div 2, (x % 2) * 5000>>

\* imshow(f,title,**kwargs): the calls it makes for a 2D array a
imshow_calls(a, title, kw) ==
    << Plot("imshow", Transpose(a), <<>>, NoTitle, kw),
       Plot("colorbar", <<>>, <<>>, NoTitle, "") ,
       Plot("title", <<>>, Fmt4(ArrMax(a)) \o Fmt4(ArrMin(a)), title, "") >>

Min(x, y) == IF x <= y THEN x ELSE y

MaxCols == 3

\* variant: rows=1+n//3
Rows_offByOne(n) == 1 + (n \div MaxCols)

\* rows=1+(n-1)//3
Rows(n) == 1 + ((n - 1) \div MaxCols)

\* cols=min(n,3)
Cols(n) == Min(n, MaxCols)

\* subplot(rows,cols,1+i), i counted from 0
SubplotIndex(i) == 1 + i

\* variant: every panel takes the first element of the array
PanelTitle_first(title, i) ==
    IF title.k = "ndarray" THEN Title("str", <<title.s[1]>>) ELSE title

\* if type(title) is np.ndarray: t=title[i] else: t=title
PanelTitle(title, i) ==
    IF title.k = "ndarray" THEN Title("str", <<title.s[i + 1]>>) ELSE title

\* title[i] raises IndexError past the end of the array
TitleRaises(title, i) == title.k = "ndarray" /\ i >= Len(title.s)

RECURSIVE panels_loop(_, _, _, _, _)
\* for i in range(n): ... ; st is [plt, exc]
panels_loop(f, title, kw, i, st) ==
    LET n == Len(f.a)
        s1 == [st EXCEPT !.plt = Append(@,
                 Plot("subplot", <<>>, <<Rows(n), Cols(n), SubplotIndex(i)>>, NoTitle, ""))]
    IN  IF i >= n \/ st.exc # "none" THEN st
        ELSE IF TitleRaises(title, i) \/ f.ndim # 3
             THEN [s1 EXCEPT !.exc = "IndexError"]
             ELSE panels_loop(f, title, kw, i + 1,
                    [s1 EXCEPT !.plt = @ \o imshow_calls(f.a[i + 1], PanelTitle(title, i), kw)])

\* imshows(f,title,**kwargs)
imshows_calls(f, title, kw) ==
    IF f.ndim = 2
    THEN [plt |-> imshow_calls(f.a, title, kw), exc |-> "none"]
    ELSE LET n == Len(f.a)
         IN  panels_loop(f, title, kw, 0,
               [plt |-> << Plot("figure", <<>>, <<Cols(n) * 5, Rows(n) * 4>>, NoTitle, "") >>,
                exc |-> "none"])

\* ------------------------------------------------------------ the calls made
NumValues == {Zero, MinusOne} \cup {AtomPow("two", k) : k \in (-MaxExp)..MaxExp}

NumArgs == {Num(x) : x \in NumValues}

UnitArgs == {Num(Zero), Num(One)}

\* every casing of a name
Casings(lower, upper) ==
    {cs \in [1..Len(lower) -> {lower[i] : i \in 1..Len(lower)} \cup {upper[i] : i \in 1..Len(upper)}] :
        \A i \in 1..Len(lower) : cs[i] \in {lower[i], upper[i]}}

foo_name == <<"f", "o", "o">>

NameArgs == {NameStr(cs) : cs \in Casings(cgs_lower, cgs_upper) \cup Casings(mks_lower, mks_upper)
                                    \cup Casings(si_lower, si_upper) \cup {foo_name}}

TableArgs == {TableObj(n) : n \in TableNames}

SomeSystems == TableArgs \cup {NameStr(cgs_lower), NameStr(si_upper),
                               NameStr(<<"M", "k", "s">>), NameStr(foo_name)}

DefaultMu == AtomPow("mu", 1)

ScalingCall(system, l, m, t, D, v, verbose) ==
    [fn |-> "scaling", system |-> system, l |-> l, m |-> m, t |-> t, D |-> D,
     v |-> v, mu |-> DefaultMu, verbose |-> verbose]

\* numbers for the five scales, under tables and table names
NumericCalls ==
    {ScalingCall(sy, l, m, t, D, v, 0) :
        sy \in SomeSystems, l \in NumArgs, m \in NumArgs, t \in NumArgs,
        D \in NumArgs, v \in NumArgs}

\* every table name, in every casing
NamedCalls ==
    {ScalingCall(sy, l, m, t, D, v, 0) :
        sy \in NameArgs \cup TableArgs, l \in UnitArgs, m \in UnitArgs, t \in UnitArgs,
        D \in UnitArgs, v \in UnitArgs}

\* strs for the five scales: the shorthands, a shorthand of another
\* parameter, an unknown word
StringCalls ==
    {ScalingCall(sy, l, m, t, D, v, 0) :
        sy \in {TableObj("CGS"), NameStr(si_lower), NameStr(foo_name)},
        l \in UnitArgs \cup {Str("pc"), Str("yr")},
        m \in UnitArgs \cup {Str("Solar"), Str("m_Sun"), Str("kg")},
        t \in UnitArgs \cup {Str("yr"), Str("kyr"), Str("Myr"), Str("s")},
        D \in UnitArgs \cup {Str("rho")},
        v \in UnitArgs \cup {Str("kms"), Str("c")}}

VerboseCalls ==
    {ScalingCall(sy, l, m, t, D, v, vb) :
        sy \in {TableObj("CGS"), NameStr(mks_lower), NameStr(foo_name)},
        l \in UnitArgs, m \in UnitArgs, t \in UnitArgs,
        D \in UnitArgs, v \in UnitArgs, vb \in 1..3}

PixelValues == {0, 3}

\* 2D arrays of shape (1,2)
Panels == {<< <<p, q>> >> : p \in PixelValues, q \in PixelValues}

Stacks == UNION {[1..n -> Panels] : n \in 0..MaxPanels}

\* the titles "t1", "t2", ... are told apart by their number
Word(i) == <<"t", i>>

WordSeq(n) == [i \in 1..n |-> Word(i)]

KwArgs == {"", "cmap=gray"}

ImageCall(fn, f, title, kw) == [fn |-> fn, f |-> f, title |-> title, kw |-> kw]

TitlesFor(n) ==
    {Title("str", <<Word(0)>>)} \cup
    {Title(k, WordSeq(n)) : k \in {"ndarray", "list", "tuple"}} \cup
    (IF n > 0 THEN {Title("ndarray", WordSeq(n - 1))} ELSE {})

StackCalls ==
    UNION {{ImageCall("imshows", Arr(3, a), ti, kw) : ti \in TitlesFor(Len(a)), kw \in KwArgs} :
              a \in Stacks}

\* a 2D array
FlatCalls ==
    {ImageCall("imshows", Arr(2, a), ti, kw) :
        a \in Panels, ti \in TitlesFor(2), kw \in KwArgs}

\* a 1D array (a rank other than 2 or 3)
VectorCalls ==
    {ImageCall("imshows", Arr(1, a), Title("str", <<Word(0)>>), kw) :
        a \in {<<>>, <<0>>, <<0, 3>>}, kw \in KwArgs}

SingleCalls ==
    {ImageCall("imshow", Arr(2, a), Title("str", <<Word(0)>>), kw) :
        a \in Panels, kw \in KwArgs}

\* ------------------------------------------------------------ state machine
VARIABLES pc, call, self, self_system, filled, nonzero, exc, obj, out, plt

vars == <<pc, call, self, self_system, filled, nonzero, exc, obj, out, plt>>

Init ==
    /\ pc = "call"
    /\ \/ call \in NumericCalls
       \/ call \in NamedCalls
       \/ call \in StringCalls
       \/ call \in VerboseCalls
       \/ call \in StackCalls
       \/ call \in FlatCalls
       \/ call \in VectorCalls
       \/ call \in SingleCalls
    /\ self = NoAttrs
    /\ self_system = Unset
    /\ filled = NoAttrs
    /\ nonzero = -1
    /\ exc = "none"
    /\ obj = FALSE
    /\ out = <<>>
    /\ plt = <<>>

\* x = scaling(system, l, m, t, D, v, mu, verbose): the caller holds the
\* object unless __init__ raised
scaling_init ==
    /\ pc = "call"
    /\ call.fn = "scaling"
    /\ LET fr == RunScaling(call.system, call.l, call.m, call.t, call.D,
                            call.v, call.mu, call.verbose)
       IN  /\ self' = fr.self
           /\ self_system' = fr.self_system
           /\ filled' = fr.filled
           /\ nonzero' = fr.nonzero
           /\ exc' = fr.exc
           /\ obj' = (fr.exc = "none")
           /\ out' = fr.out
    /\ pc' = "done"
    /\ UNCHANGED <<call, plt>>

imshows ==
    /\ pc = "call"
    /\ call.fn = "imshows"
    /\ LET r == imshows_calls(call.f, call.title, call.kw)
       IN  plt' = r.plt /\ exc' = r.exc
    /\ pc' = "done"
    /\ UNCHANGED <<call, self, self_system, filled, nonzero, obj, out>>

imshow ==
    /\ pc = "call"
    /\ call.fn = "imshow"
    /\ plt' = imshow_calls(call.f.a, call.title, call.kw)
    /\ pc' = "done"
    /\ UNCHANGED <<call, self, self_system, filled, nonzero, exc, obj, out>>

Next == scaling_init \/ imshows \/ imshow

Spec == Init /\ [][Next]_vars

\* ------------------------------------------------------------- properties
Done == pc = "done"

ScalingDone == pc = "done" /\ call.fn = "scaling"

Scales == {"l", "m", "t", "D", "v"}

\* the constructor ran to its end
Constructed == ScalingDone /\ exc = "none" /\ "m_u" \in DOMAIN self

LowerChar(ch) ==
    CASE ch = "C" -> "c" [] ch = "G" -> "g" [] ch = "S" -> "s" [] ch = "M" -> "m"
      [] ch = "K" -> "k" [] ch = "I" -> "i" [] ch = "F" -> "f" [] ch = "O" -> "o"
      [] OTHER -> ch

Lower(cs) == [i \in 1..Len(cs) |-> LowerChar(cs[i])]

\* the table a name stands for when read without regard to case
TableOfName(cs) ==
    CASE Lower(cs) = cgs_lower -> "CGS"
      [] Lower(cs) = mks_lower -> "MKS"
      [] Lower(cs) = si_lower -> "SI"
      [] OTHER -> "none"

\* the shorthands each parameter accepts
Shorthands(a) ==
    CASE a = "l" -> {"pc"}
      [] a = "m" -> {"Solar", "m_Sun"}
      [] a = "t" -> {"yr", "kyr", "Myr"}
      [] a = "v" -> {"kms"}
      [] a = "D" -> {}

\* the table constant a shorthand stands for
ShorthandValue(tab, word) ==
    CASE word = "pc" -> tab.pc
      [] word = "Solar" -> tab.m_Sun
      [] word = "m_Sun" -> tab.m_Sun
      [] word = "yr" -> tab.yr
      [] word = "kyr" -> tab.kyr
      [] word = "Myr" -> tab.Myr
      [] word = "kms" -> tab.kms

\* the scales were given as numbers, three positive and two 0
ThreeGivenTwoZero ==
    /\ \A a \in Scales : call[a].k = "num" /\ (IsPos(call[a].n) \/ IsZero(call[a].n))
    /\ Cardinality({a \in Scales : IsPos(call[a].n)}) = 3

\* C1: for every table and every choice of three positive scales with the
\* other two 0, the constructor completes, the three given scales keep
\* their values and velocity = length/time, density = mass/length^3.
C1_AnyThreeOfFive ==
    (ScalingDone /\ self_system.k = "table" /\ ThreeGivenTwoZero) =>
        /\ Constructed /\ obj
        /\ \A a \in Scales : IsPos(call[a].n) => self[a] = call[a].n
        /\ ~IsZero(self.t) /\ self.v = Div(self.l, self.t)
        /\ ~IsZero(self.l) /\ self.D = Div(self.m, Pow(self.l, 3))

\* C2: when the count of positive scales is not 3 an error is reported and
\* the caller obtains no result object.
C2_WrongCountYieldsNoObject ==
    (ScalingDone /\ exc = "none" /\ nonzero # 3) =>
        /\ ~obj
        /\ \E i \in 1..Len(out) : out[i].txt = "exactly 3 input values must be specified"

\* C3: in every constructed result each rescaled constant times its
\* combination of the stored scales gives back the table constant, and
\* G' = table.G * density * time^2.
C3_RoundTrip ==
    Constructed =>
        LET tab == Table(self_system.tab)
        IN  /\ Mul(self.k_B, self.e) = tab.k_B
            /\ Mul(self.c, self.v) = tab.c
            /\ Mul(self.m_u, self.m) = tab.m_u
            /\ Mul(Mul(self.h_P, self.t), self.e) = tab.h_P
            /\ Mul(Mul(self.Stefan, self.E), self.v) = tab.Stefan
            /\ self.G = Mul(Mul(tab.G, self.D), Pow(self.t, 2))

C3_Witness ==
    /\ Constructed /\ obj
    /\ self_system = TableObj("CGS")
    /\ self.v = AtomPow("two", 1)
    /\ self.k_B # CGS.k_B

\* C4 as stated: a table name is resolved whatever its casing.
C4_AnyCasing ==
    (ScalingDone /\ call.system.k = "str" /\ TableOfName(call.system.s) # "none") =>
        self_system = TableObj(TableOfName(call.system.s))

\* C4 amended: only the all-lower-case and all-upper-case spellings are
\* resolved to their table; a str in any other casing is stored as it is.
C4_LowerOrUpperOnly ==
    (ScalingDone /\ call.system.k = "str") =>
        IF call.system.s \in {cgs_lower, cgs_upper, mks_lower, mks_upper, si_lower, si_upper}
        THEN self_system = TableObj(TableOfName(call.system.s))
        ELSE self_system = call.system

C4_Witness ==
    /\ ScalingDone
    /\ call.system = NameStr(si_upper)
    /\ self_system = TableObj("SI")

\* a table name that is none of cgs/mks/si, or a str for a scale that is
\* not a shorthand of that scale
UsageError ==
    \/ call.system.k = "str" /\ TableOfName(call.system.s) = "none"
    \/ \E a \in Scales : call[a].k = "str" /\ call[a].s \notin Shorthands(a)

\* C5: a usage error other than the count is reported as a failure: no
\* exception leaves the call and no scale is computed or stored.
C5_UsageErrorReported ==
    (ScalingDone /\ UsageError) =>
        /\ exc = "none"
        /\ DOMAIN self = {}
        /\ Len(out) > 0

\* the scales were given with at least one shorthand and no other str
WithShorthands ==
    /\ \A a \in Scales : call[a].k = "str" => call[a].s \in Shorthands(a)
    /\ \E a \in Scales : call[a].k = "str"

\* the argument a with its shorthand replaced by the table constant
Numeric(tab, a) ==
    IF call[a].k = "str" THEN Num(ShorthandValue(tab, call[a].s)) ELSE call[a]

\* C6: shorthands are looked up in the resolved table before the count:
\* each counts as one positive input, and the call has the result of the
\* call given the table constants as numbers.
C6_ShorthandsAsNumbers ==
    (ScalingDone /\ self_system.k = "table" /\ WithShorthands) =>
        LET tab == Table(self_system.tab)
            fr == RunScaling(call.system, Numeric(tab, "l"), Numeric(tab, "m"),
                             Numeric(tab, "t"), Numeric(tab, "D"), Numeric(tab, "v"),
                             call.mu, call.verbose)
        IN  /\ nonzero = Cardinality({a \in Scales :
                            call[a].k = "str" \/ IsPos(call[a].n)})
            /\ self = fr.self
            /\ exc = fr.exc
            /\ obj = (fr.exc = "none")
            /\ out = fr.out

C6_Witness ==
    /\ Constructed /\ obj
    /\ call.system = NameStr(si_lower)
    /\ call.l = Str("pc") /\ call.m = Str("m_Sun") /\ call.t = Str("Myr")
    /\ self.l = MKS.pc /\ self.t = MKS.Myr
    /\ self.m = MKS.m_Sun

\* a 3D stack of n >= 1 panels with a title that has one text per panel
StackDone(n) ==
    /\ pc = "done" /\ call.fn = "imshows" /\ call.f.ndim = 3
    /\ Len(call.f.a) = n /\ n >= 1
    /\ (call.title.k # "str" => Len(call.title.s) = n)

\* the least r with 3*r >= n
Ceil3(n) == CHOOSE r \in 0..n : 3 * r >= n /\ \A q \in 0..n : 3 * q >= n => r <= q

\* position in plt of the subplot call of panel i (from 1); the imshow,
\* colorbar and title calls of the panel follow it
At(i) == 4 * (i - 1) + 2

\* C7: a stack of N >= 1 panels gets a grid of ceil(N/3) rows and min(N,3)
\* columns, one display per panel in order, panel i in cell i of the grid.
C7_Grid ==
    \A n \in 1..(MaxPanels + 1) : StackDone(n) =>
        LET rows == Ceil3(n)
            cols == IF n < 3 THEN n ELSE 3
        IN  /\ exc = "none"
            /\ Len(plt) = 1 + 4 * n
            /\ plt[1].op = "figure" /\ plt[1].nums = <<cols * 5, rows * 4>>
            /\ cols <= 3
            /\ \A i \in 1..n :
                 /\ plt[At(i)].op = "subplot"
                 /\ plt[At(i)].nums = <<rows, cols, i>>
                 /\ i <= rows * cols
                 /\ plt[At(i) + 1].op = "imshow"
                 /\ plt[At(i) + 1].img = Transpose(call.f.a[i])
                 /\ plt[At(i) + 2].op = "colorbar"
                 /\ plt[At(i) + 3].op = "title"

C7_Witness ==
    /\ StackDone(4)
    /\ plt[At(4)].op = "subplot"
    /\ plt[At(4)].nums = <<2, 3, 4>>
    /\ Len(plt) = 17

\* C8 as stated: any sequence of N titles (array, list or tuple) gives
\* panel i its i-th element.
C8_AnySequence ==
    \A n \in 1..(MaxPanels + 1) :
        (StackDone(n) /\ call.title.k \in {"ndarray", "list", "tuple"}) =>
            \A i \in 1..n : plt[At(i) + 3].title = Title("str", <<call.title.s[i]>>)

\* C8 amended: a str titles every panel; an ndarray of N strs gives panel i
\* its i-th element; a list or tuple is not indexed, every panel is titled
\* with the whole sequence.
C8_StrOrArray ==
    \A n \in 1..(MaxPanels + 1) : StackDone(n) =>
        \A i \in 1..n :
            /\ plt[At(i) + 3].op = "title"
            /\ plt[At(i) + 3].title =
                 IF call.title.k = "ndarray"
                 THEN Title("str", <<call.title.s[i]>>)
                 ELSE call.title

C8_Witness ==
    /\ StackDone(2)
    /\ call.title.k = "ndarray"
    /\ plt[At(2) + 3].title = Title("str", <<Word(2)>>)

\* C9: the stored mass is the stored density times the stored length
\* cubed, replacing the mass of the fill-in step, and pressure, energy and
\* energy density are computed from it and the final density and velocity.
C9_MassRecomputed ==
    (ScalingDone /\ "E" \in DOMAIN self) =>
        /\ self.m = Mul(self.D, Pow(self.l, 3))
        /\ self.P = Mul(self.D, Pow(self.v, 2))
        /\ self.e = Mul(self.m, Pow(self.v, 2))
        /\ self.E = Mul(self.D, Pow(self.v, 2))

C9_Witness ==
    /\ Constructed /\ obj
    /\ IsZero(call.l.n) /\ IsZero(call.m.n)
    /\ IsPos(call.t.n) /\ IsPos(call.D.n) /\ IsPos(call.v.n)
    /\ IsZero(filled.m)
    /\ IsPos(self.m)

\* C10 as stated: every constructed result has five positive scales, also
\* when a scale that is not counted is negative.
C10_AllPositive ==
    Constructed => \A a \in Scales : IsPos(self[a])

\* C10 amended: every constructed result has five positive scales when
\* the two scales that are not counted are 0.
C10_PositiveWhenOthersZero ==
    (Constructed /\ \A a \in Scales :
                       call[a].k = "num" => (IsPos(call[a].n) \/ IsZero(call[a].n)))
        => \A a \in Scales : IsPos(self[a])

C10_Witness ==
    /\ Constructed /\ obj
    /\ IsPos(call.l.n) /\ IsPos(call.D.n) /\ IsPos(call.v.n)
    /\ IsZero(call.m.n) /\ IsZero(call.t.n)
    /\ \A a \in Scales : IsPos(self[a])
====
